---- MODULE Spec2Model ----
(***************************************************************************)
(* Model of the atom collision simulation (src/Atoms.cpp) and of the part  *)
(* of the drawing library (src/Drawing.cpp) that main() relies on.         *)
(*                                                                         *)
(* Numbers.  The program computes in IEEE doubles.  The model computes in  *)
(* exact rational arithmetic: a number is a pair <<num, den>> in lowest    *)
(* terms with den > 0.  A square root is taken only where it is rational;  *)
(* a tick that needs an irrational square root, or that meets a field with *)
(* a denominator above MaxDen or a magnitude above MaxAbs, is outside the  *)
(* model and the tick action is disabled there (see UpdateRun).  The polar *)
(* round trip of update() (sqrt/atan2 followed by cos/sin) is modelled by  *)
(* what it computes over the reals: a rotation into the frame of the       *)
(* tangent angle a and back.                                               *)
(***************************************************************************)
EXTENDS Integers, Sequences, FiniteSets, TLC

VARIABLES
    pc,       \* position of main(): which call comes next
    image,    \* Drawing.cpp: TRUE iff the static image pointer is not NULL
    argc,     \* number of command line words (1: random mode, 2: file mode)
    file,     \* the file argv[1] names: whether it opens, and its tokens
    stream,   \* init(): the unread tokens of infile and its fail bit
    rng,      \* state of the global random engine
    n,        \* number of atoms
    atoms,    \* the atom array: 0..n-1 -> Atom (populated entries only)
    i,        \* init(): the loop counter i (atom index)
    tick,     \* main(): the loop counter i (iterations completed)
    attempts, \* init(): attempts made for atom i
    out,      \* lines written to standard output
    err,      \* the diagnostic written to standard error, <<>> if none
    status,   \* exit status of the process, "running" until it exits
    pre,      \* atom array when the last update() was entered
    hist,     \* last update(): array after step 1, then after each pair
    calls     \* calls of the drawing library made by a client other than
              \* main(), in order

vars == <<pc, image, argc, file, stream, rng, n, atoms, i, tick, attempts,
          out, err, status, pre, hist, calls>>

----------------------------------------------------------------------------
(* Program constants *)
W == 640
H == 480
F == 200
DEFAULT_N == 10
R0 == 10
R1 == 30
V0 == 1
V1 == 5

----------------------------------------------------------------------------
(* Bounds of the model *)
MaxTicks == 2      \* ticks run from a drawn atom array
MaxSeed == 200     \* values random_device can return
MaxN == 3          \* atom counts init() is called with directly
Grid == 4          \* cells the distributions' ranges are cut into
MaxDen == 10       \* largest denominator of a field a tick is run on
MaxAbs == 1000     \* largest magnitude of a field a tick is run on
MaxCalls == 4      \* calls of the drawing library a client makes

----------------------------------------------------------------------------
(* Exact rational arithmetic *)

Abs(k) == IF k < 0 THEN -k ELSE k

RECURSIVE Gcd(_, _)
Gcd(a, b) == IF b = 0 THEN a ELSE Gcd(b, a % b)

\* what a division by zero leaves in a double (an infinity or a NaN), and
\* every result computed from it: one value that is not a number
NotFinite == <<0, 0>>
Finite(a) == a[2] # 0

\* the rational num/den in lowest terms, den > 0
Q(num, den) ==
    IF den = 0 THEN NotFinite
    ELSE LET g == Gcd(Abs(num), Abs(den))
             s == IF den < 0 THEN -1 ELSE 1
         IN  <<(s * num) \div g, (s * den) \div g>>

QI(k) == <<k, 1>>
Zero == QI(0)
One == QI(1)

QNeg(a) == <<-a[1], a[2]>>
QAdd(a, b) ==
    IF a[2] = 0 \/ b[2] = 0 THEN NotFinite
    ELSE LET g == Gcd(a[2], b[2])
         IN  Q(a[1] * (b[2] \div g) + b[1] * (a[2] \div g),
               (a[2] \div g) * b[2])
QSub(a, b) == QAdd(a, QNeg(b))
QMul(a, b) ==
    IF a[2] = 0 \/ b[2] = 0 THEN NotFinite
    ELSE LET g1 == Gcd(Abs(a[1]), b[2])
             g2 == Gcd(Abs(b[1]), a[2])
         IN  Q((a[1] \div g1) * (b[1] \div g2),
               (a[2] \div g2) * (b[2] \div g1))
\* a / b; a division by zero gives NotFinite
QDiv(a, b) == QMul(a, IF b[1] < 0 THEN <<-b[2], -b[1]>> ELSE <<b[2], b[1]>>)
\* a comparison with a value that is not a number is false
NonPositive(d) == Finite(d) /\ d[1] <= 0
QLt(a, b) == QSub(a, b)[1] < 0
QLe(a, b) == NonPositive(QSub(a, b))
QSq(a) == QMul(a, a)

\* largest k with k * k <= m, by bisection
RECURSIVE ISqrtB(_, _, _)
ISqrtB(m, lo, hi) ==
    IF lo >= hi THEN lo
    ELSE LET mid == (lo + hi + 1) \div 2
         IN  IF mid * mid <= m THEN ISqrtB(m, mid, hi) ELSE ISqrtB(m, lo, mid - 1)
ISqrt(m) == ISqrtB(m, 0, IF m < 46340 THEN m ELSE 46340)
IsSquare(m) == ISqrt(m) * ISqrt(m) = m

\* sqrt of a rational a >= 0: defined in the model where it is rational
SqrtExact(a) == IsSquare(a[1]) /\ IsSquare(a[2])
Sqrt(a) == <<ISqrt(a[1]), ISqrt(a[2])>>

----------------------------------------------------------------------------
(* update(): step 1, integration and wall collisions (Atoms.cpp 193-217) *)

Integrate(a) == [a EXCEPT !.x = QAdd(a.x, a.vx), !.y = QAdd(a.y, a.vy)]

\* LeftWall with the fault "the velocity is not inverted"
LeftWallNoFlip(a) ==
    IF QLe(QSub(a.x, a.r), Zero) THEN [a EXCEPT !.x = a.r] ELSE a

LeftWall(a) ==
    IF QLe(QSub(a.x, a.r), Zero)
    THEN [a EXCEPT !.x = a.r, !.vx = QNeg(a.vx)] ELSE a

\* RightWall with the fault "the centre is not set to W - r"
RightWallNoClamp(a) ==
    IF QLe(QI(W), QAdd(a.x, a.r))
    THEN [a EXCEPT !.vx = QNeg(a.vx)] ELSE a

RightWall(a) ==
    IF QLe(QI(W), QAdd(a.x, a.r))
    THEN [a EXCEPT !.x = QSub(QI(W), a.r), !.vx = QNeg(a.vx)] ELSE a

TopWall(a) ==
    IF QLe(QSub(a.y, a.r), Zero)
    THEN [a EXCEPT !.y = a.r, !.vy = QNeg(a.vy)] ELSE a

BottomWall(a) ==
    IF QLe(QI(H), QAdd(a.y, a.r))
    THEN [a EXCEPT !.y = QSub(QI(H), a.r), !.vy = QNeg(a.vy)] ELSE a

\* one iteration of the first loop: the four tests run in this order
WallStep(a) == BottomWall(TopWall(RightWall(LeftWall(Integrate(a)))))

\* the first loop over atoms 0..k, and over the whole array
RECURSIVE Step1Upto(_, _)
Step1Upto(s, k) ==
    IF k < 0 THEN <<>> ELSE Step1Upto(s, k - 1) @@ (k :> WallStep(s[k]))
Step1(s) == Step1Upto(s, Cardinality(DOMAIN s) - 1)

----------------------------------------------------------------------------
(* update(): step 2, one pair (i, j) of the double loop (Atoms.cpp 222-277) *)

Dx(s, ii, jj) == QSub(s[jj].x, s[ii].x)
Dy(s, ii, jj) == QSub(s[jj].y, s[ii].y)
Dist2(s, ii, jj) == QAdd(QSq(Dx(s, ii, jj)), QSq(Dy(s, ii, jj)))
Dist(s, ii, jj) == Sqrt(Dist2(s, ii, jj))
SumR(s, ii, jj) == QAdd(s[ii].r, s[jj].r)

\* sqrt(a) < b over the reals, for a >= 0 and b >= 0 (sqrt is monotone)
SqrtLt(a, b) == QLt(a, QSq(b))

\* the test dist < sumR
Overlap(s, ii, jj) == SqrtLt(Dist2(s, ii, jj), SumR(s, ii, jj))

\* Norm with the fault "the guard is left out": norm = dist
NormUnguarded(dist) == dist

\* norm = (dist == 0) ? 1.0 : dist
Norm(dist) == IF dist = Zero THEN One ELSE dist

\* Shift with the fault "-=" for "+=": atom j is pulled towards atom i
ShiftBack(a, dx, dy, dist, sumR) ==
    LET overlap == QSub(sumR, dist)
    IN  [a EXCEPT
            !.x = QSub(a.x, QMul(QDiv(dx, Norm(dist)), overlap)),
            !.y = QSub(a.y, QMul(QDiv(dy, Norm(dist)), overlap))]

\* the atom a after a.x += (dx / norm) * overlap, and the same for y
Shift(a, dx, dy, dist, sumR) ==
    LET overlap == QSub(sumR, dist)
    IN  [a EXCEPT
            !.x = QAdd(a.x, QMul(QDiv(dx, Norm(dist)), overlap)),
            !.y = QAdd(a.y, QMul(QDiv(dy, Norm(dist)), overlap))]

\* atom j after the repositioning of the pair (i, j)
Reposition(s, ii, jj) ==
    Shift(s[jj], Dx(s, ii, jj), Dy(s, ii, jj), Dist(s, ii, jj), SumR(s, ii, jj))

\* cos and sin of a = atan2(ty, tx), tx = -dy, ty = dx.  For dx = dy = 0 the
\* arguments are ty = +0.0 and tx = -0.0, and atan2(+0, -0) is pi.
Cos(tx, dist) == IF dist = Zero THEN QI(-1) ELSE QDiv(tx, dist)
Sin(ty, dist) == IF dist = Zero THEN Zero ELSE QDiv(ty, dist)
CosA(s, ii, jj) == Cos(QNeg(Dy(s, ii, jj)), Dist(s, ii, jj))
SinA(s, ii, jj) == Sin(Dx(s, ii, jj), Dist(s, ii, jj))

\* speed * cos(angle - a) and speed * sin(angle - a) for the velocity
\* (vx, vy) = (speed cos angle, speed sin angle); c, sn are cos a, sin a
Horiz(vx, vy, c, sn) == QAdd(QMul(vx, c), QMul(vy, sn))
Vert(vx, vy, c, sn) == QSub(QMul(vy, c), QMul(vx, sn))

Mass(a) == QMul(a.r, a.r)

\* VCenter with the fault "the masses are left out"
VCenterUnweighted(m1, v1, m2, v2) == QDiv(QAdd(v1, v2), QI(2))

\* V_center = (m1 * vi_vert + m2 * vj_vert) / (m1 + m2)
VCenter(m1, v1, m2, v2) ==
    QDiv(QAdd(QMul(m1, v1), QMul(m2, v2)), QAdd(m1, m2))

\* VertNew with the fault "the factor 2 is left out"
VertNewHalf(vc, v) == QSub(vc, v)

\* vert_new = 2 * V_center - vert
VertNew(vc, v) == QSub(QMul(QI(2), vc), v)

\* speed_new * cos(angle_new + a), speed_new * sin(angle_new + a) for the
\* rotated velocity (horiz, vert) = speed_new (cos angle_new, sin angle_new)
FinalVx(hz, vt, c, sn) == QSub(QMul(hz, c), QMul(vt, sn))
FinalVy(hz, vt, c, sn) == QAdd(QMul(hz, sn), QMul(vt, c))

\* the final velocities from the components in the rotated frame
Final(vi_horiz, vi_vert_new, vj_horiz, vj_vert_new, c, sn) ==
    [ivx |-> FinalVx(vi_horiz, vi_vert_new, c, sn),
     ivy |-> FinalVy(vi_horiz, vi_vert_new, c, sn),
     jvx |-> FinalVx(vj_horiz, vj_vert_new, c, sn),
     jvy |-> FinalVy(vj_horiz, vj_vert_new, c, sn)]

\* the exchange along the vertical axis of the rotated frame
Exchange(m1, vi_horiz, vi_vert, m2, vj_horiz, vj_vert, V_center, c, sn) ==
    Final(vi_horiz, VertNew(V_center, vi_vert),
          vj_horiz, VertNew(V_center, vj_vert), c, sn)

\* the resolution of the velocities of ai and aj for the tangent angle a
Collide(ai, aj, m1, vi_horiz, vi_vert, m2, vj_horiz, vj_vert, c, sn) ==
    Exchange(m1, vi_horiz, vi_vert, m2, vj_horiz, vj_vert,
             VCenter(m1, vi_vert, m2, vj_vert), c, sn)

Rotate(ai, aj, c, sn) ==
    Collide(ai, aj,
            Mass(ai), Horiz(ai.vx, ai.vy, c, sn), Vert(ai.vx, ai.vy, c, sn),
            Mass(aj), Horiz(aj.vx, aj.vy, c, sn), Vert(aj.vx, aj.vy, c, sn),
            c, sn)

\* the velocities of atoms i and j after the resolution, computed from the
\* array s as it is when the pair is tested (the velocities are not touched
\* by the repositioning)
NewVel(s, ii, jj) == Rotate(s[ii], s[jj], CosA(s, ii, jj), SinA(s, ii, jj))

\* Resolved with the fault "atom i is pushed back as far as atom j is
\* pushed forward"
ResolvedBoth(s, ii, jj, p, v) ==
    [s EXCEPT
        ![ii] = [s[ii] EXCEPT !.x = QSub(@, QSub(p.x, s[jj].x)),
                              !.y = QSub(@, QSub(p.y, s[jj].y)),
                              !.vx = v.ivx, !.vy = v.ivy],
        ![jj] = [p EXCEPT !.vx = v.jvx, !.vy = v.jvy]]

\* the array with atom j replaced by p and the velocities v written
Resolved(s, ii, jj, p, v) ==
    [s EXCEPT
        ![ii] = [s[ii] EXCEPT !.vx = v.ivx, !.vy = v.ivy],
        ![jj] = [p EXCEPT !.vx = v.jvx, !.vy = v.jvy]]

\* ResolvePair with the fault "only a pair that approaches is resolved"
ResolvePairApproaching(s, ii, jj) ==
    IF Overlap(s, ii, jj)
          /\ QLt(QAdd(QMul(QSub(s[jj].vx, s[ii].vx), Dx(s, ii, jj)),
                      QMul(QSub(s[jj].vy, s[ii].vy), Dy(s, ii, jj))), Zero)
    THEN Resolved(s, ii, jj, Reposition(s, ii, jj), NewVel(s, ii, jj))
    ELSE s

\* the body of the inner loop for the pair (i, j)
ResolvePair(s, ii, jj) ==
    IF Overlap(s, ii, jj)
    THEN Resolved(s, ii, jj, Reposition(s, ii, jj), NewVel(s, ii, jj))
    ELSE s

\* the pairs in the order the double loop visits them
RECURSIVE PairSeqFrom(_, _, _)
PairSeqFrom(m, ii, jj) ==
    IF ii >= m - 1 THEN <<>>
    ELSE IF jj >= m THEN PairSeqFrom(m, ii + 1, ii + 2)
    ELSE <<<<ii, jj>>>> \o PairSeqFrom(m, ii, jj + 1)
PairSeq(m) == PairSeqFrom(m, 0, 1)

\* the pair needs no square root (it does not overlap) or a rational one
PairExact(s, ii, jj) == Overlap(s, ii, jj) => SqrtExact(Dist2(s, ii, jj))

\* the fields of the array are numbers of the model: denominators up to
\* MaxDen and magnitudes up to MaxAbs (the products of larger ones leave the
\* range of the arithmetic)
InRange(q) == q[2] <= MaxDen /\ Abs(q[1]) <= MaxAbs * q[2]
Bounded(s) ==
    \A k \in DOMAIN s :
        /\ InRange(s[k].r)
        /\ InRange(s[k].x) /\ InRange(s[k].y)
        /\ InRange(s[k].vx) /\ InRange(s[k].vy)

\* one pass of the inner loop on the last array of h: the array after the
\* pair is appended.  h is left as it is where the tick leaves the model: the
\* overlapping pair's distance is irrational, or the array is not Bounded
PairStep(h, s, ii, jj) ==
    IF Bounded(s) /\ PairExact(s, ii, jj)
    THEN Append(h, ResolvePair(s, ii, jj))
    ELSE h

\* the passes lo..hi of the double loop, in order, from the arrays h:
\* h[1] is the array after step 1, h[m + 1] the array after the m-th pair.
\* (The range is run in two halves, which keeps the evaluation shallow.)
RECURSIVE Step2(_, _, _, _)
Step2(ps, h, lo, hi) ==
    IF lo > hi THEN h
    ELSE IF lo = hi THEN PairStep(h, h[Len(h)], ps[lo][1], ps[lo][2])
    ELSE LET mid == (lo + hi) \div 2
             left == Step2(ps, h, lo, mid)
         IN  IF Len(left) = mid + 1
             THEN Step2(ps, left, mid + 1, hi)
             ELSE left

\* one update(): the arrays h, and whether the whole tick is in the model
UpdateRun(m, s) ==
    IF Bounded(s)
    THEN LET ps == PairSeq(m)
             h == Step2(ps, <<Step1(s)>>, 1, Len(ps))
         IN  [ok |-> Len(h) = Len(ps) + 1, h |-> h]
    ELSE [ok |-> FALSE, h |-> <<>>]

----------------------------------------------------------------------------
(* The input file and operator>> (Atoms.cpp 52-58, 130-141) *)

\* A file can be opened or not, and holds a sequence of whitespace-separated
\* tokens.  A token is an integer literal, a decimal
\* literal with a fraction ("7.5"), the rest of a decimal literal whose
\* integer part has been read (".5"), or text that starts no number.
TI(k) == [k |-> "int", v |-> QI(k)]
TR(num, den) == [k |-> "real", v |-> Q(num, den)]
TFrac(v) == [k |-> "frac", v |-> v]
TBad == [k |-> "bad", v |-> Zero]

\* the integer part of a rational, towards zero, and what is left of it
Trunc(v) == IF v[1] < 0 THEN -((-v[1]) \div v[2]) ELSE v[1] \div v[2]
FracPart(v) == Q(Abs(v[1]) % v[2], v[2])

\* ifstream infile(name): the stream state is the unread tokens and the fail
\* bit; opening an unreadable file sets the fail bit
Open(f) == [toks |-> f.toks, fail |-> ~f.readable]

Failed(st) == [ok |-> FALSE, val |-> Zero, st |-> [toks |-> st.toks, fail |-> TRUE]]

\* infile >> (int): reads the digits of an integer; of a decimal literal it
\* reads the integer part and leaves the fraction in the stream
ReadInt(st) ==
    IF st.fail \/ st.toks = <<>> THEN Failed(st)
    ELSE LET tk == Head(st.toks)
         IN  CASE tk.k = "int" ->
                    [ok |-> TRUE, val |-> tk.v, st |-> [st EXCEPT !.toks = Tail(@)]]
               [] tk.k = "real" ->
                    [ok |-> TRUE, val |-> QI(Trunc(tk.v)),
                     st |-> [st EXCEPT !.toks = <<TFrac(FracPart(tk.v))>> \o Tail(@)]]
               [] OTHER -> Failed(st)

\* infile >> (double): reads any numeric literal
ReadNum(st) ==
    IF st.fail \/ st.toks = <<>> THEN Failed(st)
    ELSE LET tk == Head(st.toks)
         IN  IF tk.k = "bad" THEN Failed(st)
             ELSE [ok |-> TRUE, val |-> tk.v, st |-> [st EXCEPT !.toks = Tail(@)]]

\* infile >> color >> r >> x >> y >> vx >> vy: each extraction runs on the
\* state the one before it left
ReadRecord(st) ==
    LET c == ReadInt(st)
        r == ReadNum(c.st)
        x == ReadNum(r.st)
        y == ReadNum(x.st)
        vx == ReadNum(y.st)
        vy == ReadNum(vx.st)
    IN  [ok |-> ~vy.st.fail,
         atom |-> [color |-> c.val[1], r |-> r.val, x |-> x.val, y |-> y.val,
                   vx |-> vx.val, vy |-> vy.val],
         st |-> vy.st]

----------------------------------------------------------------------------
(* The random engine and the distributions (Atoms.cpp 32, 78-96, 113-117) *)

\* default_random_engine is a multiplicative congruential engine; the model
\* uses one with a small prime modulus: state in 1..Modulus-1
Modulus == 65537
Multiplier == 75
NextRng(x) == (Multiplier * x) % Modulus

\* rng.seed(v): a seed congruent to 0 becomes 1
Seed(v) == IF v % Modulus = 0 THEN 1 ELSE v % Modulus

\* the engine's output scaled to [0, 1), cut to a grid of g cells: 0..g-1
Canon(x, g) == ((x - 1) * g) \div (Modulus - 1)

\* uniform_real_distribution<double>(a, b) on the engine output x
UniformReal(a, b, x) ==
    QAdd(a, QMul(QSub(b, a), Q(Canon(x, Grid), Grid)))

\* cos(angle) and sin(angle) for angle_dist(0, 2 PI), on a grid of quarter
\* turns, where both are rational
Directions == << <<1, 0>>, <<0, 1>>, <<-1, 0>>, <<0, -1>> >>
Direction(x) == Directions[Canon(x, Len(Directions)) + 1]

\* uniform_int_distribution<int>(0, 0xFFFFFF)
ColorOf(x) == (x - 1) * 256

\* one pass of the while loop: the draws of r, x, y
DrawPlace(x0) ==
    LET x1 == NextRng(x0)
        x2 == NextRng(x1)
        x3 == NextRng(x2)
        r == UniformReal(QI(R0), QI(R1), x1)
    IN  [r |-> r,
         x |-> UniformReal(r, QSub(QI(W), r), x2),
         y |-> UniformReal(r, QSub(QI(H), r), x3),
         rng |-> x3]

\* the draws of speed, angle and color once the place is accepted
DrawMotion(x0) ==
    LET x1 == NextRng(x0)
        x2 == NextRng(x1)
        x3 == NextRng(x2)
        speed == UniformReal(QI(V0), QI(V1), x1)
        dir == Direction(x2)
    IN  [vx |-> QMul(speed, QI(dir[1])),
         vy |-> QMul(speed, QI(dir[2])),
         color |-> ColorOf(x3),
         rng |-> x3]

\* Intersects with the fault "j < i - 1": the atom placed last is not tested
IntersectsSkipLast(s, ii, r, x, y) ==
    \E jj \in 0..(ii - 2) :
        SqrtLt(QAdd(QSq(QSub(s[jj].x, x)), QSq(QSub(s[jj].y, y))),
               QAdd(s[jj].r, r))

\* the inner for loop: some atom j < i has dist < atoms[j].r + r
Intersects(s, ii, r, x, y) ==
    \E jj \in 0..(ii - 1) :
        SqrtLt(QAdd(QSq(QSub(s[jj].x, x)), QSq(QSub(s[jj].y, y))),
               QAdd(s[jj].r, r))

----------------------------------------------------------------------------
(* Output and termination *)

\* cout << n << endl
CountLine(m) == <<"count", m>>
\* cout << color << " " << r << " " << x << " " << y << " " << vx << " " << vy
AtomLine(a) == <<"atom", a.color, a.r, a.x, a.y, a.vx, a.vy>>
PressLine == <<"Press <ENTER> to continue...">>
CloseLine == <<"Close window to exit...">>

IsAtomLine(l) == l[1] = "atom"

\* cerr << message; exit(1)
Fatal(msg) ==
    /\ err' = msg
    /\ status' = "exit1"
    /\ pc' = "exit"

\* Drawing.cpp: the message and exit(-1) of checkImage() and beginDrawing()
Abort(o, call) ==
    /\ out' = Append(o, <<"ERROR", call>>)
    /\ status' = "abort"
    /\ pc' = "exit"

----------------------------------------------------------------------------
(* number() (Atoms.cpp 46-66) *)

\* the value number() returns, or the error it exits with
NumberOf(ac, f) ==
    IF ac = 1 THEN [ok |-> TRUE, n |-> DEFAULT_N]
    ELSE IF ac = 2
    THEN LET st == Open(f)
             h == ReadInt(st)
         IN  IF st.fail THEN [ok |-> FALSE, msg |-> <<"Cannot open file">>]
             ELSE IF h.st.fail \/ h.val[1] <= 0
             THEN [ok |-> FALSE, msg |-> <<"Invalid number of atoms in file">>]
             ELSE [ok |-> TRUE, n |-> h.val[1]]
    ELSE [ok |-> TRUE, n |-> 0]

Number ==
    /\ pc = "number"
    /\ LET res == NumberOf(argc, file)
       IN  IF res.ok
           THEN /\ n' = res.n
                /\ out' = Append(out, CountLine(res.n))
                /\ pc' = "init"
                /\ UNCHANGED <<err, status>>
           ELSE /\ Fatal(res.msg)
                /\ UNCHANGED <<n, out>>
    /\ UNCHANGED <<image, argc, file, stream, rng, atoms, i, tick, attempts,
                   pre, hist,
                   calls>>

----------------------------------------------------------------------------
(* init() (Atoms.cpp 75-162) *)

\* values random_device returns in the model
RandDev == {(7919 * v) % Modulus : v \in 0..MaxSeed}

\* argc == 1: seed the engine and enter the placement loop
InitSeed ==
    /\ pc = "init"
    /\ argc = 1
    /\ \E v \in RandDev : rng' = Seed(v)
    /\ i' = 0
    /\ attempts' = 0
    /\ pc' = IF 0 < n THEN "place" ELSE "report"
    /\ UNCHANGED <<image, argc, file, stream, n, atoms, tick, out, err, status,
                   pre, hist,
                   calls>>

\* the atom array with entry k written
Store(s, k, a) == (k :> a) @@ s

\* after atom k is populated: the next atom, or the report loop
AfterAtom(k) ==
    /\ i' = IF k + 1 < n THEN k + 1 ELSE 0
    /\ pc' = IF k + 1 < n THEN pc ELSE "report"

\* the body of the while loop for atom i: the draws, the intersection test
\* and, if the place is free, the population of atoms[i]
Place ==
    /\ LET d == DrawPlace(rng)
           m == DrawMotion(d.rng)
       IN  IF Intersects(atoms, i, d.r, d.x, d.y)
           THEN /\ attempts' = attempts + 1
                /\ rng' = d.rng
                /\ UNCHANGED <<atoms, i, pc>>
           ELSE /\ atoms' = Store(atoms, i,
                        [color |-> m.color, r |-> d.r, x |-> d.x, y |-> d.y,
                         vx |-> m.vx, vy |-> m.vy])
                /\ rng' = m.rng
                /\ attempts' = 0
                /\ AfterAtom(i)
    /\ UNCHANGED <<image, argc, file, stream, n, tick, out, err, status,
                   pre, hist,
                   calls>>

\* InitAttempt with the fault "attempts <= 3": a fourth pass is made
InitAttemptOnceMore ==
    /\ pc = "place"
    /\ i < n
    /\ attempts <= 3
    /\ Place

\* one pass of the while loop for atom i (attempts < 3 && !placed)
InitAttempt ==
    /\ pc = "place"
    /\ i < n
    /\ attempts < 3
    /\ Place

\* the while loop ended with placed false
InitExhausted ==
    /\ pc = "place"
    /\ i < n
    /\ attempts = 3
    /\ Fatal(<<"Could not place atom", i>>)
    /\ UNCHANGED <<image, argc, file, stream, rng, n, atoms, i, tick, attempts,
                   out, pre, hist,
                   calls>>

\* argc == 2: open the file and read the header into file_n, unchecked
InitOpen ==
    /\ pc = "init"
    /\ argc = 2
    /\ LET st == Open(file)
       IN  IF st.fail
           THEN /\ Fatal(<<"Cannot open file">>)
                /\ UNCHANGED <<stream, i>>
           ELSE /\ stream' = ReadInt(st).st
                /\ i' = 0
                /\ pc' = IF 0 < n THEN "load" ELSE "report"
                /\ UNCHANGED <<err, status>>
    /\ UNCHANGED <<image, argc, file, rng, n, atoms, tick, attempts, out,
                   pre, hist,
                   calls>>

\* InitRecord with the fault "each atom is printed as soon as it is read"
InitRecordEcho ==
    /\ pc = "load"
    /\ i < n
    /\ LET rec == ReadRecord(stream)
       IN  /\ stream' = rec.st
           /\ IF rec.ok
              THEN /\ atoms' = Store(atoms, i, rec.atom)
                   /\ out' = Append(out, AtomLine(rec.atom))
                   /\ AfterAtom(i)
                   /\ UNCHANGED <<err, status>>
              ELSE /\ Fatal(<<"File format incorrect for atom", i>>)
                   /\ UNCHANGED <<atoms, i, out>>
    /\ UNCHANGED <<image, argc, file, rng, n, tick, attempts, pre, hist,
                   calls>>

\* one pass of the loop that reads the records
InitRecord ==
    /\ pc = "load"
    /\ i < n
    /\ LET rec == ReadRecord(stream)
       IN  /\ stream' = rec.st
           /\ IF rec.ok
              THEN /\ atoms' = Store(atoms, i, rec.atom)
                   /\ AfterAtom(i)
                   /\ UNCHANGED <<err, status>>
              ELSE /\ Fatal(<<"File format incorrect for atom", i>>)
                   /\ UNCHANGED <<atoms, i>>
    /\ UNCHANGED <<image, argc, file, rng, n, tick, attempts, out, pre, hist,
                   calls>>

\* neither branch runs
InitSkip ==
    /\ pc = "init"
    /\ argc \notin {1, 2}
    /\ i' = 0
    /\ pc' = "report"
    /\ UNCHANGED <<image, argc, file, stream, rng, n, atoms, tick, attempts,
                   out, err, status, pre, hist,
                   calls>>

\* one pass of the loop that prints the atoms
InitReport ==
    /\ pc = "report"
    /\ i < n
    /\ out' = Append(out, AtomLine(atoms[i]))
    /\ i' = i + 1
    /\ UNCHANGED <<pc, image, argc, file, stream, rng, n, atoms, tick,
                   attempts, err, status, pre, hist,
                   calls>>

\* init() returns to main()
InitReturn ==
    /\ pc = "report"
    /\ i = n
    /\ pc' = "draw0"
    /\ UNCHANGED <<image, argc, file, stream, rng, n, atoms, i, tick,
                   attempts, out, err, status, pre, hist,
                   calls>>

----------------------------------------------------------------------------
(* The drawing library (Drawing.cpp 61-80, 107-156) and draw() *)

\* beginDrawing(): refuses a second call while a window is open
Begin ==
    /\ pc = "begin"
    /\ IF image
       THEN /\ Abort(out, "beginDrawing")
            /\ UNCHANGED image
       ELSE /\ image' = TRUE
            /\ pc' = "number"
            /\ UNCHANGED <<out, status>>
    /\ UNCHANGED <<argc, file, stream, rng, n, atoms, i, tick, attempts, err,
                   pre, hist,
                   calls>>

\* draw(): fillRectangle, fillEllipse and flush each start with checkImage;
\* the first of them aborts when no window is open
DrawCall(next) ==
    /\ IF image
       THEN /\ pc' = next
            /\ UNCHANGED <<out, status>>
       ELSE Abort(out, "fillRectangle")
    /\ UNCHANGED <<image, argc, file, stream, rng, n, atoms, i, tick,
                   attempts, err, pre, hist,
                   calls>>

\* draw(n, atoms) after init()
Draw0 == pc = "draw0" /\ DrawCall("wait")

\* the start gate: the prompt and getline(cin, s); then the loop is entered
Wait ==
    /\ pc = "wait"
    /\ out' = Append(out, PressLine)
    /\ tick' = 0
    /\ pc' = IF 0 < F THEN "update" ELSE "end"
    /\ UNCHANGED <<image, argc, file, stream, rng, n, atoms, i, attempts,
                   err, status, pre, hist,
                   calls>>

----------------------------------------------------------------------------
(* The loop of main() (Atoms.cpp 301-306) *)

\* Update with the fault "a field is read before it is written": the x of
\* atom 0 that update() starts from holds either of two values
UpdateUninit ==
    /\ pc = "update"
    /\ \E d \in {0, 1} :
         \E run \in {UpdateRun(n, [atoms EXCEPT ![0].x = QAdd(@, QI(d))])} :
           /\ run.ok
           /\ atoms' = run.h[Len(run.h)]
           /\ hist' = run.h
    /\ pre' = atoms
    /\ pc' = "draw"
    /\ UNCHANGED <<image, argc, file, stream, rng, n, i, tick, attempts,
                   out, err, status, calls>>

\* update(n, atoms): the whole tick
Update ==
    /\ pc = "update"
    /\ \E run \in {UpdateRun(n, atoms)} :
           /\ run.ok
           /\ atoms' = run.h[Len(run.h)]
           /\ hist' = run.h
    /\ pre' = atoms
    /\ pc' = "draw"
    /\ UNCHANGED <<image, argc, file, stream, rng, n, i, tick, attempts,
                   out, err, status, calls>>

\* draw(n, atoms) in the loop
Draw == pc = "draw" /\ DrawCall("sleep")

\* Sleep with the fault "i <= F" in the loop test: one more iteration runs
SleepOnceMore ==
    /\ pc = "sleep"
    /\ tick' = tick + 1
    /\ pc' = IF tick + 1 <= F THEN "update" ELSE "end"
    /\ UNCHANGED <<image, argc, file, stream, rng, n, atoms, i, attempts,
                   out, err, status, pre, hist,
                   calls>>

\* sleep_for(S), i++ and the loop test i < F
Sleep ==
    /\ pc = "sleep"
    /\ tick' = tick + 1
    /\ pc' = IF tick + 1 < F THEN "update" ELSE "end"
    /\ UNCHANGED <<image, argc, file, stream, rng, n, atoms, i, attempts,
                   out, err, status, pre, hist,
                   calls>>

\* delete[] atoms, the closing message, endDrawing() and return 0
End ==
    /\ pc = "end"
    /\ IF image
       THEN /\ out' = Append(out, CloseLine)
            /\ image' = FALSE
            /\ status' = "exit0"
            /\ pc' = "exit"
       ELSE /\ Abort(Append(out, CloseLine), "endDrawing")
            /\ UNCHANGED image
    /\ UNCHANGED <<argc, file, stream, rng, n, atoms, i, tick, attempts, err,
                   pre, hist,
                   calls>>

----------------------------------------------------------------------------
(* A client of the drawing library (Drawing.h, Drawing.cpp): any sequence  *)
(* of calls, made at pc = "client"                                         *)

\* the functions that start with checkImage() and leave the window open
Checked == {"flush", "getWidth", "getHeight", "fillRectangle", "fillEllipse"}

\* what a client's call leaves unchanged
ClientFrame ==
    UNCHANGED <<argc, file, stream, rng, n, atoms, i, tick, attempts, err,
                pre, hist>>

\* beginDrawing(): aborts while a window is open, else opens one
ClientBegin ==
    /\ pc = "client"
    /\ Len(calls) < MaxCalls
    /\ calls' = Append(calls, "beginDrawing")
    /\ IF image
       THEN /\ Abort(out, "beginDrawing")
            /\ UNCHANGED image
       ELSE /\ image' = TRUE
            /\ UNCHANGED <<pc, out, status>>
    /\ ClientFrame

\* ClientEnd with the fault "image = NULL is left out"
ClientEndKeepsImage ==
    /\ pc = "client"
    /\ Len(calls) < MaxCalls
    /\ calls' = Append(calls, "endDrawing")
    /\ IF image
       THEN UNCHANGED <<image, pc, out, status>>
       ELSE /\ Abort(out, "endDrawing")
            /\ UNCHANGED image
    /\ ClientFrame

\* endDrawing(): checkImage(), then the window is closed and image = NULL
ClientEnd ==
    /\ pc = "client"
    /\ Len(calls) < MaxCalls
    /\ calls' = Append(calls, "endDrawing")
    /\ IF image
       THEN /\ image' = FALSE
            /\ UNCHANGED <<pc, out, status>>
       ELSE /\ Abort(out, "endDrawing")
            /\ UNCHANGED image
    /\ ClientFrame

\* flush(), getWidth(), getHeight() or a drawing function: checkImage()
ClientCall ==
    /\ pc = "client"
    /\ Len(calls) < MaxCalls
    /\ \E call \in Checked :
          /\ calls' = Append(calls, call)
          /\ IF image
             THEN UNCHANGED <<pc, out, status>>
             ELSE Abort(out, call)
    /\ UNCHANGED image
    /\ ClientFrame

----------------------------------------------------------------------------
(* Inputs *)

A(c, r, x, y, vx, vy) ==
    [color |-> c, r |-> QI(r), x |-> QI(x), y |-> QI(y),
     vx |-> QI(vx), vy |-> QI(vy)]

\* the six tokens of a record with integer fields
Rec(c, r, x, y, vx, vy) == <<TI(c), TI(r), TI(x), TI(y), TI(vx), TI(vy)>>

RecA == Rec(255, 10, 100, 100, 1, 0)
RecB == Rec(65280, 10, 118, 100, -1, 0)
RecC == Rec(16711680, 20, 300, 240, 3, 4)
\* a record outside the window, and one with radius 0 at the place of RecA
RecOut == Rec(1, 10, -50, 1000, 0, 0)
RecZero == Rec(2, 0, 100, 100, 0, 0)

\* the files argv[1] can name
Unreadable == [readable |-> FALSE, toks |-> <<>>]
File(toks) == [readable |-> TRUE, toks |-> toks]
FileSet ==
    { Unreadable,
      File(<<>>),
      File(<<TBad>>),
      File(<<TI(0)>> \o RecA),
      File(<<TI(-2)>> \o RecA),
      File(<<TI(1)>> \o RecC),
      File(<<TI(2)>> \o RecA \o RecB),
      File(<<TI(1)>> \o RecA \o RecB),
      File(<<TI(3)>> \o RecA \o RecB),
      File(<<TI(2)>> \o RecA \o <<TI(7), TI(10), TBad, TI(100), TI(0), TI(0)>>),
      File(<<TI(2)>> \o RecA \o <<TI(7), TI(10), TI(50)>>),
      File(<<TI(2)>> \o <<TBad>> \o RecA \o RecB),
      File(<<TR(5, 2)>> \o RecA \o RecB),
      File(<<TI(2)>> \o RecOut \o RecZero),
      File(<<TI(2)>> \o RecA \o RecA),
      File(<<TI(1)>> \o <<TI(9), TR(21, 2), TR(201, 2), TI(100), TR(-3, 2), TR(1, 4)>>),
      File(<<TI(1)>> \o <<TR(15, 2), TI(10), TI(100), TI(100), TI(1), TI(0)>>),
      File(<<TI(2)>> \o <<TR(15, 2), TI(10), TI(100), TI(100), TI(1), TI(0)>> \o RecB) }

NoAtoms == <<>>
NoStream == [toks |-> <<>>, fail |-> FALSE]

\* the atom arrays the ticks are run from: any array can be loaded from a
\* file, which is not validated
Atoms0 ==
    {A(0, r, p[1], p[2], v[1], v[2]) :
        r \in {10, 20},
        p \in {<<100, 100>>, <<5, 100>>, <<31, 100>>, <<625, 472>>},
        v \in {<<1, 0>>, <<-2, 0>>, <<-6, 0>>, <<0, 0>>, <<3, 4>>}}
Atoms1 ==
    {A(1, r, p[1], p[2], v[1], v[2]) :
        r \in {10, 20},
        p \in {<<118, 100>>, <<102, 100>>, <<109, 112>>, <<11, 100>>,
               <<140, 100>>, <<100, 76>>},
        v \in {<<-1, 0>>, <<1, 0>>, <<0, 0>>, <<-5, 0>>, <<1, 2>>}}
Atoms2 ==
    {A(2, 10, p[1], p[2], v[1], v[2]) :
        p \in {<<120, 100>>, <<300, 300>>},
        v \in {<<0, 0>>, <<-1, 0>>}}

\* an atom as high as the window
AtomsTall ==
    {A(3, 240, 320, 240, v[1], v[2]) : v \in {<<0, -1>>, <<0, 1>>, <<1, 0>>}}

AtomArrays ==
    {(0 :> a0) : a0 \in Atoms0 \cup AtomsTall}
    \cup {(0 :> a[1]) @@ (1 :> a[2]) : a \in Atoms0 \X Atoms1}
    \cup {(0 :> a[1]) @@ (1 :> a[2]) @@ (2 :> a[3]) :
            a \in Atoms0 \X Atoms1 \X Atoms2}

----------------------------------------------------------------------------
(* Specifications *)

\* the process from the start of main()
Init ==
    /\ pc = "begin"
    /\ image = FALSE
    /\ argc \in {1, 2, 3}
    /\ file \in IF argc = 1 THEN {Unreadable} ELSE FileSet
    /\ stream = NoStream
    /\ rng = 1
    /\ n = 0
    /\ atoms = NoAtoms
    /\ i = 0
    /\ tick = 0
    /\ attempts = 0
    /\ out = <<>>
    /\ err = <<>>
    /\ status = "running"
    /\ pre = NoAtoms
    /\ hist = <<>>
    /\ calls = <<>>

Next ==
    \/ Begin
    \/ Number
    \/ InitSeed
    \/ InitAttempt
    \/ InitExhausted
    \/ InitOpen
    \/ InitRecord
    \/ InitSkip
    \/ InitReport
    \/ InitReturn
    \/ Draw0
    \/ Wait
    \/ Update
    \/ Draw
    \/ Sleep
    \/ End

Spec == Init /\ [][Next]_vars

\* init(n, atoms, argc, argv) called with any count and any file
InitInit ==
    /\ pc = "init"
    /\ image = TRUE
    /\ argc \in {1, 2}
    /\ file \in IF argc = 1 THEN {Unreadable} ELSE FileSet
    /\ stream = NoStream
    /\ rng = 1
    /\ n \in (1..MaxN) \cup {DEFAULT_N}
    /\ atoms = NoAtoms
    /\ i = 0
    /\ tick = 0
    /\ attempts = 0
    /\ out = <<>>
    /\ err = <<>>
    /\ status = "running"
    /\ pre = NoAtoms
    /\ hist = <<>>
    /\ calls = <<>>

NextInit ==
    \/ InitSeed
    \/ InitAttempt
    \/ InitExhausted
    \/ InitOpen
    \/ InitRecord
    \/ InitReport
    \/ InitReturn

SpecInit == InitInit /\ [][NextInit]_vars

\* the loop of main() entered with any atom array
InitTick ==
    /\ pc = "update"
    /\ image = TRUE
    /\ argc = 2
    /\ file = Unreadable
    /\ stream = NoStream
    /\ rng = 1
    /\ atoms \in AtomArrays
    /\ n = Cardinality(DOMAIN atoms)
    /\ i = 0
    /\ tick = 0
    /\ attempts = 0
    /\ out = <<>>
    /\ err = <<>>
    /\ status = "running"
    /\ pre = NoAtoms
    /\ hist = <<>>
    /\ calls = <<>>

\* update() for the first MaxTicks iterations
UpdateTick ==
    /\ tick < MaxTicks
    /\ Update

NextTick ==
    \/ UpdateTick
    \/ Draw
    \/ Sleep

SpecTick == InitTick /\ [][NextTick]_vars

\* a client of the drawing library that has made no call yet (argc = 0:
\* there is no main())
InitClient ==
    /\ pc = "client"
    /\ image = FALSE
    /\ argc = 0
    /\ file = Unreadable
    /\ stream = NoStream
    /\ rng = 1
    /\ n = 0
    /\ atoms = NoAtoms
    /\ i = 0
    /\ tick = 0
    /\ attempts = 0
    /\ out = <<>>
    /\ err = <<>>
    /\ status = "running"
    /\ pre = NoAtoms
    /\ hist = <<>>
    /\ calls = <<>>

\* the library under main() and under any client
InitDraw == Init \/ InitClient

NextDraw ==
    \/ Begin
    \/ Number
    \/ InitSeed
    \/ InitAttempt
    \/ InitExhausted
    \/ InitOpen
    \/ InitRecord
    \/ InitSkip
    \/ InitReport
    \/ InitReturn
    \/ Draw0
    \/ Wait
    \/ Update
    \/ Draw
    \/ Sleep
    \/ End
    \/ ClientBegin
    \/ ClientEnd
    \/ ClientCall

SpecDraw == InitDraw /\ [][NextDraw]_vars

----------------------------------------------------------------------------
(* Properties of update() (SpecTick).  In a state with pc = "draw" the     *)
(* call update(n, pre) has just returned atoms; hist[1] is the array after *)
(* step 1 and hist[k + 1] the array after the k-th pair of step 2.         *)

\* the circle of a lies inside the window
InWindow(a) ==
    /\ QLe(a.r, a.x) /\ QLe(a.x, QSub(QI(W), a.r))
    /\ QLe(a.r, a.y) /\ QLe(a.y, QSub(QI(H), a.r))

\* the k-th pair of step 2
PairI(k) == PairSeq(n)[k][1]
PairJ(k) == PairSeq(n)[k][2]
PairIndex == 1..Len(PairSeq(n))

\* an atom array as init() leaves it in random mode: every circle inside
\* the window and no two circles intersecting
Valid(s) ==
    /\ \A k \in DOMAIN s : InWindow(s[k])
    /\ \A a, b \in DOMAIN s : a < b => ~Overlap(s, a, b)

\* C1: when update() returns (after the wall step and the pairwise
\* repositioning of the tick), every atom satisfies r <= x <= W - r and
\* r <= y <= H - r; stated for the ticks that start from an array with
\* every circle inside the window and no two intersecting.
C1_BoundsInvariant ==
    (pc = "draw" /\ Valid(pre)) => \A k \in DOMAIN atoms : InWindow(atoms[k])

\* C2 as claimed: when update() returns, every pair of atoms is at distance
\* at least r_i + r_j - epsilon, for a tolerance epsilon of one unit of length.
Epsilon == QI(1)
ReachedLow(p, v, r) == QLe(QSub(QAdd(p, v), r), Zero)
ReachedHigh(p, v, r, extent) == QLe(QI(extent), QAdd(QAdd(p, v), r))
AxisReflected(p, v, r, extent, p1, v1) ==
    /\ ReachedLow(p, v, r) => (p1 = r /\ v1 = QNeg(v))
    /\ ReachedHigh(p, v, r, extent) =>
          (p1 = QSub(QI(extent), r) /\ v1 = QNeg(v))

\* C3 as claimed: in step 1, for each atom and each axis, if after
\* position += velocity the circle has reached or passed a wall, the centre
\* ends the step at the tangent position and the velocity component negated.
C3_WallReflectionAll ==
    pc = "draw" =>
        \A k \in DOMAIN pre :
            /\ AxisReflected(pre[k].x, pre[k].vx, pre[k].r, W,
                             hist[1][k].x, hist[1][k].vx)
            /\ AxisReflected(pre[k].y, pre[k].vy, pre[k].r, H,
                             hist[1][k].y, hist[1][k].vy)

\* C3 as amended: the same for each atom and each axis whose extent is
\* larger than the atom's diameter (2r < W for x, 2r < H for y).
C3_WallReflection ==
    pc = "draw" =>
        \A k \in DOMAIN pre :
            /\ QLt(QMul(QI(2), pre[k].r), QI(W)) =>
                  AxisReflected(pre[k].x, pre[k].vx, pre[k].r, W,
                                hist[1][k].x, hist[1][k].vx)
            /\ QLt(QMul(QI(2), pre[k].r), QI(H)) =>
                  AxisReflected(pre[k].y, pre[k].vy, pre[k].r, H,
                                hist[1][k].y, hist[1][k].vy)

\* C3, witness: the atom at (5, 100) with r = 10 and v = (-2, 0) ends step 1
\* with x = 10 and vx = +2
C3_Witness ==
    /\ pc = "draw"
    /\ n = 1
    /\ pre[0].r = QI(10) /\ pre[0].x = QI(5) /\ pre[0].y = QI(100)
    /\ pre[0].vx = QI(-2) /\ pre[0].vy = Zero
    /\ hist[1][0].x = QI(10) /\ hist[1][0].vx = QI(2)

\* two atoms of equal radius on a horizontal line, velocities along x, no
\* wall reached in step 1, overlapping after the integration
HeadOnPair ==
    /\ pc = "draw"
    /\ n = 2
    /\ pre[0].r = pre[1].r
    /\ pre[0].y = pre[1].y
    /\ pre[0].vy = Zero /\ pre[1].vy = Zero
    /\ \A k \in {0, 1} :
          /\ hist[1][k].x = QAdd(pre[k].x, pre[k].vx)
          /\ hist[1][k].vx = pre[k].vx
          /\ InWindow(hist[1][k])
    /\ Overlap(hist[1], 0, 1)

\* C4: for such a pair one update() leaves the centres at distance exactly
\* r_i + r_j along x and exchanges the two velocities.
C4_HeadOnExchange ==
    HeadOnPair =>
        /\ atoms[0].y = atoms[1].y
        /\ QSq(QSub(atoms[1].x, atoms[0].x)) = QSq(SumR(atoms, 0, 1))
        /\ atoms[0].vx = pre[1].vx /\ atoms[0].vy = Zero
        /\ atoms[1].vx = pre[0].vx /\ atoms[1].vy = Zero

\* the collision normal of a pair, scaled by the distance of the centres;
\* for coincident centres the axis the code resolves along (a = pi: the
\* tangent is the x axis, the normal the y axis)
NormalX(s, ii, jj) == IF Dist2(s, ii, jj) = Zero THEN Zero ELSE Dx(s, ii, jj)
NormalY(s, ii, jj) == IF Dist2(s, ii, jj) = Zero THEN One ELSE Dy(s, ii, jj)

\* the components of the velocity of atom k of t along the normal and along
\* the tangent of the pair (ii, jj) of s, both scaled by the distance
AlongNormal(t, k, s, ii, jj) ==
    QAdd(QMul(t[k].vx, NormalX(s, ii, jj)), QMul(t[k].vy, NormalY(s, ii, jj)))
AlongTangent(t, k, s, ii, jj) ==
    QSub(QMul(t[k].vy, NormalX(s, ii, jj)), QMul(t[k].vx, NormalY(s, ii, jj)))

\* m_i v_i^2 + m_j v_j^2 with m = r^2
KineticEnergy(s, ii, jj) ==
    QAdd(QMul(QSq(s[ii].r), QAdd(QSq(s[ii].vx), QSq(s[ii].vy))),
         QMul(QSq(s[jj].r), QAdd(QSq(s[jj].vx), QSq(s[jj].vy))))

\* both velocities of the pair have no tangential component
HeadOn(s, ii, jj) ==
    /\ AlongTangent(s, ii, s, ii, jj) = Zero
    /\ AlongTangent(s, jj, s, ii, jj) = Zero

\* C5: for an overlapping pair whose velocities have only a normal
\* component, the kinetic energy m_i v_i^2 + m_j v_j^2 (m = r^2) is the same
\* before and after the pair's resolution.
C5_EnergyConserved ==
    pc = "draw" =>
        \A k \in PairIndex :
            (Overlap(hist[k], PairI(k), PairJ(k))
                /\ HeadOn(hist[k], PairI(k), PairJ(k)))
            => KineticEnergy(hist[k + 1], PairI(k), PairJ(k))
                  = KineticEnergy(hist[k], PairI(k), PairJ(k))

\* C5, witness: two atoms of different radius collide head-on and the
\* resolution changes their velocities
C5_Witness ==
    /\ pc = "draw"
    /\ n = 2
    /\ hist[1][0].r # hist[1][1].r
    /\ Overlap(hist[1], 0, 1)
    /\ HeadOn(hist[1], 0, 1)
    /\ hist[2][0].vx # hist[1][0].vx
    /\ KineticEnergy(hist[1], 0, 1) # Zero

\* V_com of the pair (ii, jj) of s, scaled by the distance
VCom(s, ii, jj) ==
    QDiv(QAdd(QMul(QSq(s[ii].r), AlongNormal(s, ii, s, ii, jj)),
              QMul(QSq(s[jj].r), AlongNormal(s, jj, s, ii, jj))),
         QAdd(QSq(s[ii].r), QSq(s[jj].r)))

\* the rule for atom k of the pair (ii, jj): s before, t after the resolution
Resolution(s, t, k, ii, jj) ==
    /\ AlongNormal(t, k, s, ii, jj)
          = QSub(QMul(QI(2), VCom(s, ii, jj)), AlongNormal(s, k, s, ii, jj))
    /\ AlongTangent(t, k, s, ii, jj) = AlongTangent(s, k, s, ii, jj)

\* C6: for every overlapping pair resolved in update(), each atom's new
\* velocity component along the normal is 2 V_com minus the old one, with
\* V_com = (r_i^2 v_i,n + r_j^2 v_j,n) / (r_i^2 + r_j^2), and its component
\* along the tangent is unchanged.
C6_VelocityFormula ==
    pc = "draw" =>
        \A k \in PairIndex :
            Overlap(hist[k], PairI(k), PairJ(k)) =>
                /\ Resolution(hist[k], hist[k + 1], PairI(k), PairI(k), PairJ(k))
                /\ Resolution(hist[k], hist[k + 1], PairJ(k), PairI(k), PairJ(k))

\* C6, witness: an oblique collision: atom i has a tangential component and
\* its normal component changes
C6_Witness ==
    /\ pc = "draw"
    /\ \E k \in PairIndex :
          /\ Overlap(hist[k], PairI(k), PairJ(k))
          /\ AlongTangent(hist[k], PairI(k), hist[k], PairI(k), PairJ(k)) # Zero
          /\ AlongNormal(hist[k + 1], PairI(k), hist[k], PairI(k), PairJ(k))
                # AlongNormal(hist[k], PairI(k), hist[k], PairI(k), PairJ(k))

----------------------------------------------------------------------------
(* Properties of init() (SpecInit).  init() has returned in the states     *)
(* with pc = "draw0" and has ended the process in those with               *)
(* status = "exit1".                                                       *)

\* C7: whenever init() in random mode completes without a fatal error, all
\* n atoms are populated, every atom lies inside the window and no two
\* atoms intersect (centre distance >= r_i + r_j).
C7_RandomInit ==
    (argc = 1 /\ pc = "draw0") =>
        /\ DOMAIN atoms = 0..(n - 1)
        /\ \A k \in 0..(n - 1) : InWindow(atoms[k])
        /\ \A a, b \in 0..(n - 1) : a < b => ~Overlap(atoms, a, b)

\* C7, witness: the random placement of DEFAULT_N atoms has completed
C7_Witness ==
    /\ argc = 1
    /\ pc = "draw0"
    /\ n = DEFAULT_N
    /\ DOMAIN atoms = 0..(DEFAULT_N - 1)

\* the draw the next pass of the while loop makes intersects a placed atom
NextDrawIntersects ==
    Intersects(atoms, i, DrawPlace(rng).r, DrawPlace(rng).x, DrawPlace(rng).y)

\* C8, in every state: at most 3 draws of an atom are rejected, atom 0 is
\* never rejected, and a fatal error names atom i after 3 rejected draws
RetryInvariant ==
    argc = 1 =>
        /\ attempts \in 0..3
        /\ (pc = "place" /\ i = 0) => attempts = 0
        /\ status = "exit1" =>
              (attempts = 3 /\ i > 0 /\ err = <<"Could not place atom", i>>)
        /\ n = 1 => status # "exit1"

\* the passes of the while loop still possible: it falls with every pass
Passes == 3 * (n - i) - attempts

\* C8, in every step of the placement: after 3 rejected draws no further
\* draw is made and the process ends with the error naming atom i; before,
\* a draw that intersects is counted and one that does not is accepted; a
\* pass that stays in the loop leaves fewer passes
RetryStep ==
    /\ (argc = 1 /\ pc = "place") =>
        IF attempts = 3
        THEN status' = "exit1" /\ err' = <<"Could not place atom", i>>
        ELSE IF NextDrawIntersects
             THEN attempts' = attempts + 1 /\ i' = i /\ atoms' = atoms
                  /\ status' = "running"
             ELSE /\ atoms'[i].r = DrawPlace(rng).r
                  /\ atoms'[i].x = DrawPlace(rng).x
                  /\ atoms'[i].y = DrawPlace(rng).y
                  /\ attempts' = 0
                  /\ (i' = i + 1 \/ pc' = "report")
                  /\ status' = "running"
    /\ (argc = 1 /\ pc = "place" /\ pc' = "place") =>
          (Passes' < Passes /\ Passes' >= 0)

\* C8: in random mode init() makes at most 3 draws for each atom and
\* accepts the first that intersects no placed atom; it ends in a fatal
\* error naming atom i exactly when all 3 draws for atom i intersect, and it
\* never loops forever; atom 0 is accepted on its first draw, so n = 1
\* never exhausts the retry.
C8_BoundedRetry ==
    /\ []RetryInvariant
    /\ [][RetryStep]_vars

\* C8, witness: the third draw of an atom was rejected and the process ended
C8_Witness ==
    /\ argc = 1
    /\ status = "exit1"
    /\ attempts = 3
    /\ err = <<"Could not place atom", i>>

\* field f (1..6) of record k (0, 1, ...) of the file, after the header
Field(k, f) == file.toks[1 + 6 * k + f]

\* record k is in the file, its colour an integer and its other fields numbers
WellFormed(k) ==
    /\ Len(file.toks) >= 7 + 6 * k
    /\ Field(k, 1).k = "int"
    /\ \A f \in 2..6 : Field(k, f).k \in {"int", "real"}

\* the atom record k describes
RecordOf(k) ==
    [color |-> Field(k, 1).v[1], r |-> Field(k, 2).v, x |-> Field(k, 3).v,
     y |-> Field(k, 4).v, vx |-> Field(k, 5).v, vy |-> Field(k, 6).v]

\* the file opens and starts with an integer header
HeaderRead ==
    /\ argc = 2
    /\ file.readable
    /\ file.toks # <<>>
    /\ Head(file.toks).k = "int"

\* C9: init() with a file stores the six fields of each of the n records
\* after the header into atoms[i], in order and unvalidated, and at the
\* first record i that cannot be read as color, r, x, y, vx, vy it ends
\* with the fatal error that names i.
C9_RecordLoad ==
    HeaderRead =>
        /\ pc = "draw0" =>
              \A k \in 0..(n - 1) : WellFormed(k) /\ atoms[k] = RecordOf(k)
        /\ status = "exit1" =>
              /\ err = <<"File format incorrect for atom", i>>
              /\ ~WellFormed(i)
              /\ \A k \in 0..(i - 1) : WellFormed(k) /\ atoms[k] = RecordOf(k)

----------------------------------------------------------------------------
(* Properties of main() (Spec) *)

\* the atom report lines written so far
AtomLines == SelectSeq(out, IsAtomLine)

\* C10: the report (one line per atom, in index order) is written once and
\* only after all n atoms are populated; after any error of number() or
\* init() the process has exited with failure status, has written no atom
\* report line and has run no tick.
C10_NoPartialSuccess ==
    /\ status = "exit1" =>
          (pc = "exit" /\ AtomLines = <<>> /\ tick = 0 /\ hist = <<>>)
    /\ err # <<>> => status = "exit1"
    /\ Len(AtomLines) <= n
    /\ hist = <<>> =>
          \A k \in 1..Len(AtomLines) : AtomLines[k] = AtomLine(atoms[k - 1])
    /\ AtomLines # <<>> => DOMAIN atoms = 0..(n - 1)
    /\ pc \in {"draw0", "wait", "update", "draw", "sleep", "end"} =>
          Len(AtomLines) = n
    /\ status = "exit0" => Len(AtomLines) = n

\* C10, witness: the second record of the file is malformed: atom 0 was
\* populated, the process has exited with the error and no report line
C10_Witness ==
    /\ status = "exit1"
    /\ err = <<"File format incorrect for atom", 1>>
    /\ 0 \in DOMAIN atoms
    /\ AtomLines = <<>>

\* the lines of out equal to l
Count(l) == Len(SelectSeq(out, LAMBDA x : x = l))

\* the order of the calls of main(): from each position, the next ones
Order ==
    { <<"begin", "number">>, <<"number", "init">>, <<"number", "exit">>,
      <<"init", "place">>, <<"init", "load">>, <<"init", "report">>,
      <<"init", "exit">>, <<"place", "report">>, <<"place", "exit">>,
      <<"load", "report">>, <<"load", "exit">>, <<"report", "draw0">>,
      <<"draw0", "wait">>, <<"wait", "update">>, <<"update", "draw">>,
      <<"draw", "sleep">>, <<"sleep", "update">>, <<"sleep", "end">>,
      <<"end", "exit">> }

\* C11, in every state: before the start gate no tick has run; in the loop
\* init() has completed (the report is written), the start signal was
\* waited for once and fewer than F iterations are complete; the loop is
\* left after exactly F iterations and only then the run ends normally
LifecycleInvariant ==
    /\ pc \in {"begin", "number", "init", "place", "load", "report",
                "draw0", "wait"} =>
          (tick = 0 /\ hist = <<>> /\ Count(PressLine) = 0)
    /\ pc \in {"update", "draw", "sleep"} =>
          /\ tick < F
          /\ Len(AtomLines) = n
          /\ Count(PressLine) = 1
          /\ Count(CountLine(n)) = 1
    /\ pc \in {"draw", "sleep"} => hist # <<>>
    /\ pc = "end" => (tick = F /\ Count(PressLine) = 1)
    /\ status = "exit0" => (pc = "exit" /\ tick = F /\ Count(CloseLine) = 1)
    /\ status # "running" => pc = "exit"
    /\ (pc = "exit" /\ status # "exit0") => (tick = 0 /\ hist = <<>>)

\* C11, in every step: the calls follow the order of main() without
\* skipping one; an iteration is update, then draw, then the pause, which
\* alone counts it and enters the next iteration while fewer than F are
\* complete; update() changes the atoms only in the loop; nothing happens
\* after the process has ended
LifecycleStep ==
    /\ pc # "exit"
    /\ pc' # pc => <<pc, pc'>> \in Order
    /\ pc = "update" => (pc' = "draw" /\ pre' = atoms /\ tick' = tick)
    /\ pc = "draw" => (pc' = "sleep" /\ atoms' = atoms /\ tick' = tick)
    /\ pc = "sleep" =>
          /\ tick' = tick + 1
          /\ atoms' = atoms
          /\ pc' = IF tick' < F THEN "update" ELSE "end"
    /\ pc = "wait" => (pc' = "update" /\ atoms' = atoms)
    /\ pc # "sleep" => tick' = tick
    /\ hist' # hist => pc = "update"
    /\ (atoms' # atoms /\ pc \notin {"place", "load"}) => pc = "update"

\* C11: a run goes from uninitialized to initialized to running to
\* terminated without skipping a state: init() is called once, the start
\* signal is waited for once before the first tick, exactly F iterations
\* run, each in the order update, render, pause, and then the run ends; no
\* update() happens before init() completes or after termination.
C11_Lifecycle ==
    /\ []LifecycleInvariant
    /\ [][LifecycleStep]_vars

\* C11, witness: a run has ended normally after F iterations of the loop
C11_Witness ==
    /\ status = "exit0"
    /\ tick = F
    /\ hist # <<>>
    /\ Count(PressLine) = 1

----------------------------------------------------------------------------
(* Determinism of update() (SpecTick) *)

\* the array update(m, s) returns, from m and s alone
Tick(m, s) == UpdateRun(m, s).h[Len(PairSeq(m)) + 1]

----------------------------------------------------------------------------
(* Totality of update() (SpecTick) *)

\* every field of the atom is a number
FiniteAtom(a) ==
    Finite(a.r) /\ Finite(a.x) /\ Finite(a.y) /\ Finite(a.vx) /\ Finite(a.vy)

\* all radii of the array are positive
PositiveRadii(s) == \A k \in DOMAIN s : QLt(Zero, s[k].r)

\* C13: for an array with all radii positive update() completes without a
\* runtime error: in every pair it resolves, coincident centres included,
\* the divisor norm and the divisor m1 + m2 are not zero, and every field
\* it returns is a number.
C13_Total ==
    (pc = "draw" /\ PositiveRadii(pre)) =>
        /\ \A k \in PairIndex :
              Overlap(hist[k], PairI(k), PairJ(k)) =>
                 /\ Norm(Dist(hist[k], PairI(k), PairJ(k))) # Zero
                 /\ QAdd(Mass(hist[k][PairI(k)]), Mass(hist[k][PairJ(k)]))
                       # Zero
        /\ \A k \in DOMAIN atoms : FiniteAtom(atoms[k])

\* C13, witness: update() has resolved a pair with coincident centres
C13_Witness ==
    /\ pc = "draw"
    /\ PositiveRadii(pre)
    /\ \E k \in PairIndex :
          /\ Dist2(hist[k], PairI(k), PairJ(k)) = Zero
          /\ Overlap(hist[k], PairI(k), PairJ(k))
    /\ \A k \in DOMAIN atoms : FiniteAtom(atoms[k])

----------------------------------------------------------------------------
(* The protocol of the drawing library (SpecDraw) *)

\* the call a client's step makes
Called == calls'[Len(calls')]

\* C14, in every step of a client: a call other than beginDrawing made
\* while no window is open aborts the program, and so does beginDrawing
\* while a window is open; otherwise the call returns, beginDrawing with
\* a window open, endDrawing with none, any other call with the window as
\* it was
ProtocolStep ==
    pc = "client" =>
        /\ Len(calls') = Len(calls) + 1
        /\ Called \in Checked \cup {"beginDrawing", "endDrawing"}
        /\ IF image = (Called = "beginDrawing")
           THEN /\ status' = "abort"
                /\ pc' = "exit"
                /\ out' = Append(out, <<"ERROR", Called>>)
           ELSE /\ status' = "running"
                /\ pc' = "client"
                /\ out' = out
                /\ image' = IF Called = "beginDrawing" THEN TRUE
                            ELSE IF Called = "endDrawing" THEN FALSE
                            ELSE image

\* C14: over any sequence of calls, a drawing, flush, getWidth, getHeight
\* or endDrawing call made while no window is open aborts the program,
\* beginDrawing called while a window is open aborts the program, and after
\* endDrawing has returned a new beginDrawing is accepted; main() calls
\* beginDrawing first and endDrawing last, so none of its calls aborts.
C14_DrawingProtocol ==
    /\ [][ProtocolStep]_vars
    /\ [](argc # 0 => status # "abort")
    /\ [](pc \in {"number", "init", "place", "load", "report", "draw0",
                  "wait", "update", "draw", "sleep", "end"} => image)

\* C14, witness: a client has opened a window, closed it and opened a new one
C14_Witness ==
    /\ calls = <<"beginDrawing", "endDrawing", "beginDrawing">>
    /\ image
    /\ status = "running"

----------------------------------------------------------------------------
(* Coincident centres, the frame of a pair and the approach direction      *)
(* (SpecTick)                                                              *)

\* C15: when a pair (i, j) resolved in step 2 has centre distance 0, atom j
\* is moved by r_i + r_j along a fixed unit axis: its position is not left
\* unchanged and the pair ends its resolution tangent.
C15_CoincidentSeparated ==
    pc = "draw" =>
        \A k \in PairIndex :
            (Overlap(hist[k], PairI(k), PairJ(k))
                /\ Dist2(hist[k], PairI(k), PairJ(k)) = Zero)
            => /\ <<hist[k + 1][PairJ(k)].x, hist[k + 1][PairJ(k)].y>>
                     # <<hist[k][PairJ(k)].x, hist[k][PairJ(k)].y>>
               /\ Dist2(hist[k + 1], PairI(k), PairJ(k))
                     = QSq(SumR(hist[k], PairI(k), PairJ(k)))

\* atoms k of s and of t have the same radius and colour
SameShape(s, t, k) == t[k].r = s[k].r /\ t[k].color = s[k].color

\* C16: resolving an overlapping pair (i, j), i < j, changes only the
\* position of atom j and the velocities of atoms i and j: the position of
\* atom i, the radius and colour of every atom, the number of atoms and
\* every field of every other atom are unchanged; a pair that does not
\* overlap changes nothing.
C16_PairFrame ==
    pc = "draw" =>
        /\ Len(hist) = Len(PairSeq(n)) + 1
        /\ atoms = hist[Len(hist)]
        /\ \A k \in PairIndex :
              /\ PairI(k) < PairJ(k)
              /\ DOMAIN hist[k + 1] = 0..(n - 1)
              /\ IF Overlap(hist[k], PairI(k), PairJ(k))
                 THEN /\ hist[k + 1][PairI(k)].x = hist[k][PairI(k)].x
                      /\ hist[k + 1][PairI(k)].y = hist[k][PairI(k)].y
                      /\ \A m \in 0..(n - 1) :
                            /\ SameShape(hist[k], hist[k + 1], m)
                            /\ m \notin {PairI(k), PairJ(k)} =>
                                  hist[k + 1][m] = hist[k][m]
                 ELSE hist[k + 1] = hist[k]

\* C16, witness: with three atoms one pair was resolved, atom j moved and
\* both velocities changed, and another pair did not overlap
C16_Witness ==
    /\ pc = "draw"
    /\ n = 3
    /\ \E k \in PairIndex :
          /\ Overlap(hist[k], PairI(k), PairJ(k))
          /\ hist[k + 1][PairJ(k)].x # hist[k][PairJ(k)].x
          /\ hist[k + 1][PairI(k)].vx # hist[k][PairI(k)].vx
          /\ hist[k + 1][PairJ(k)].vx # hist[k][PairJ(k)].vx
    /\ \E k \in PairIndex : ~Overlap(hist[k], PairI(k), PairJ(k))

\* v_i,normal - v_j,normal of the velocities of t, along the normal of the
\* pair (ii, jj) of s, scaled by the distance: negative when the atoms move
\* apart along the normal (the normal points from i to j)
RelativeNormal(t, s, ii, jj) ==
    QSub(AlongNormal(t, ii, s, ii, jj), AlongNormal(t, jj, s, ii, jj))

\* C17: the velocity resolution is applied to every pair with
\* d < r_i + r_j, with no test of the approach direction, and it negates
\* the pair's relative velocity along the normal; hence an overlapping pair
\* that moves apart along the normal is turned to move toward each other.
C17_RelativeNegated ==
    pc = "draw" =>
        \A k \in PairIndex :
            Overlap(hist[k], PairI(k), PairJ(k)) =>
               /\ RelativeNormal(hist[k + 1], hist[k], PairI(k), PairJ(k))
                    = QNeg(RelativeNormal(hist[k], hist[k], PairI(k), PairJ(k)))
               /\ QLt(RelativeNormal(hist[k], hist[k], PairI(k), PairJ(k)), Zero)
                    => QLt(Zero, RelativeNormal(hist[k + 1], hist[k],
                                                PairI(k), PairJ(k)))

\* C17, witness: a pair with distinct centres that overlapped while moving
\* apart moves toward each other after its resolution
C17_Witness ==
    /\ pc = "draw"
    /\ \E k \in PairIndex :
          /\ Overlap(hist[k], PairI(k), PairJ(k))
          /\ Dist2(hist[k], PairI(k), PairJ(k)) # Zero
          /\ QLt(RelativeNormal(hist[k], hist[k], PairI(k), PairJ(k)), Zero)
          /\ QLt(Zero, RelativeNormal(hist[k + 1], hist[k], PairI(k), PairJ(k)))

----------------------------------------------------------------------------
(* The array after step 1 (SpecTick) *)

\* the walls of one axis that trigger in step 1 for position p, velocity v
\* and radius r: the low wall is tested on p + v, the high wall on the
\* position the low wall's test has left
LowTriggers(p, v, r) == ReachedLow(p, v, r)
HighTriggers(p, v, r, extent) ==
    IF ReachedLow(p, v, r)
    THEN QLe(QI(extent), QAdd(r, r))
    ELSE ReachedHigh(p, v, r, extent)

\* at most one wall of the axis triggers, and the velocity component v1
\* after the step is v negated if one does and v if none does
NegatedAtMostOnce(p, v, r, extent, v1) ==
    /\ ~(LowTriggers(p, v, r) /\ HighTriggers(p, v, r, extent))
    /\ v1 = IF LowTriggers(p, v, r) \/ HighTriggers(p, v, r, extent)
            THEN QNeg(v) ELSE v

\* C18: for every atom with 2r < W and 2r < H, right after step 1 of
\* update() the atom satisfies r <= x <= W - r and r <= y <= H - r, each
\* velocity component has been negated at most once in that step, and at
\* most one of the two opposite walls of an axis has triggered.
C18_AfterWalls ==
    pc = "draw" =>
        \A k \in DOMAIN pre :
            (QLt(QMul(QI(2), pre[k].r), QI(W))
                /\ QLt(QMul(QI(2), pre[k].r), QI(H)))
            => /\ InWindow(hist[1][k])
               /\ NegatedAtMostOnce(pre[k].x, pre[k].vx, pre[k].r, W,
                                    hist[1][k].vx)
               /\ NegatedAtMostOnce(pre[k].y, pre[k].vy, pre[k].r, H,
                                    hist[1][k].vy)

\* C18, witness: an atom that started beyond the right and the bottom wall
\* ends step 1 tangent to both, with both velocity components negated
C18_Witness ==
    /\ pc = "draw"
    /\ \E k \in DOMAIN pre :
          /\ QLt(QI(W), QAdd(pre[k].x, pre[k].r))
          /\ QLt(QI(H), QAdd(pre[k].y, pre[k].r))
          /\ pre[k].vx # Zero /\ pre[k].vy # Zero
          /\ hist[1][k].x = QSub(QI(W), pre[k].r)
          /\ hist[1][k].y = QSub(QI(H), pre[k].r)
          /\ hist[1][k].vx = QNeg(pre[k].vx)
          /\ hist[1][k].vy = QNeg(pre[k].vy)

====
